---- MODULE Spec2Model ----
(***************************************************************************)
(* Model of the weewx chill-time extension: the XType providers ChillTime  *)
(* (src/chillTime.py) and ChillHours (src/chill_hours.py) and the services *)
(* that register them with the host's provider list weewx.xtypes.xtypes.   *)
(*                                                                         *)
(* Number representation.  Python floats are held as fixed-point integers: *)
(*   - a temperature is held in hundredths of a degree (45 F is 4500);     *)
(*   - an archive interval is held in whole minutes, as the archive does;  *)
(*   - a duration in hours is held in 1/120 h (1 h is 120), so that the    *)
(*     factor .5 of the utah table is exact on whole minutes;              *)
(*   - a duration in seconds is held in whole seconds.                     *)
(* A Python value that may be None is a sequence: << >> is None and <<x>>  *)
(* is the number x.  A string is the sequence of its characters.           *)
(***************************************************************************)
EXTENDS Integers, Sequences, FiniteSets, TLC

VARIABLES services, xtypes, startOrder, call

vars == <<services, xtypes, startOrder, call>>

-----------------------------------------------------------------------------
(* Bounds of the model *)

\* Number of service objects the engine may load.
MaxServices == 2

\* Longest record stream genBatchRecords yields for a time span.
MaxLen == 2

-----------------------------------------------------------------------------
(* Python values *)

None == << >>

Num(x) == <<x>>

IsNone(v) == v = << >>

Val(v) == v[1]

\* Hundredths of a degree for n whole degrees.
Deg(n) == n * 100

\* Strings of the program, as character sequences.
S_simple == <<"s", "i", "m", "p", "l", "e">>

S_utah == <<"u", "t", "a", "h">>

S_modified == <<"m", "o", "d", "i", "f", "i", "e", "d">>

S_tetens == <<"t", "e", "t", "e", "n", "s">>

UpperCase == <<"A", "B", "C", "D", "E", "F", "G", "H", "I", "J", "K", "L", "M",
               "N", "O", "P", "Q", "R", "S", "T", "U", "V", "W", "X", "Y", "Z">>

LowerCase == <<"a", "b", "c", "d", "e", "f", "g", "h", "i", "j", "k", "l", "m",
               "n", "o", "p", "q", "r", "s", "t", "u", "v", "w", "x", "y", "z">>

lower_char(c) ==
    IF \E i \in 1..26 : UpperCase[i] = c
    THEN LowerCase[CHOOSE i \in 1..26 : UpperCase[i] = c]
    ELSE c

\* str.lower()
str_lower(s) == [i \in 1..Len(s) |-> lower_char(s[i])]

-----------------------------------------------------------------------------
(* Inputs *)

\* Spellings of the algorithm option a weewx.conf may hold.  "tetens" is the
\* alternative the installation notes of chill_hours.py name.
AlgorithmNames ==
    { S_simple,
      <<"S", "i", "m", "p", "l", "e">>,
      <<"S", "I", "M", "P", "L", "E">>,
      S_utah,
      <<"U", "t", "a", "h">>,
      S_modified,
      <<"M", "O", "D", "I", "F", "I", "E", "D">>,
      S_tetens }

\* The part of config_dict a service reads: its own section, which may be
\* absent, and the section's algorithm option, which may be absent.
NoSection == [section |-> FALSE, option |-> FALSE, algorithm |-> << >>]

NoOption == [section |-> TRUE, option |-> FALSE, algorithm |-> << >>]

WithAlgorithm(n) == [section |-> TRUE, option |-> TRUE, algorithm |-> n]

Configs == {NoSection, NoOption} \cup {WithAlgorithm(n) : n \in AlgorithmNames}

Classes == {"ChillTime", "ChillHours"}

ObsTypes == {"chillTime", "chillHours", "outTemp"}

AggregateTypes == {"sum", "avg"}

\* Unit systems of a record (weewx.US, weewx.METRIC).
UnitSystems == {"US", "METRIC"}

\* Temperatures, hundredths of a degree in the record's own unit: the
\* thresholds of the three algorithms and their neighbours in Fahrenheit,
\* and Celsius values that convert to either side of each threshold.
TempsF == {3100, 3200, 3201, 3400, 3401, 3600, 3601, 4499, 4500, 4800, 4801,
           5400, 5401, 6000, 6001, 6500, 6501}

TempsC == {-100, 0, 5, 110, 115, 220, 225, 720, 725, 885, 890, 1220, 1225,
           1555, 1560, 1830, 1835}

Temps == TempsF \cup TempsC

\* Archive intervals in minutes.
Intervals == {5, 60}

\* An archive record: `has` holds the keys present, a key that is absent
\* holds None.
Record(has, t, i, u) == [has |-> has, outTemp |-> t, interval |-> i, usUnits |-> u]

FieldValues(key, has, nums) ==
    IF key \in has THEN {None} \cup {Num(x) : x \in nums} ELSE {None}

RecordsOver(temps, intervals) ==
    UNION { { Record(has, t, i, u) :
                t \in FieldValues("outTemp", has, temps),
                i \in FieldValues("interval", has, intervals),
                u \in UnitSystems } :
            has \in SUBSET {"outTemp", "interval"} }

Records == RecordsOver(Temps, Intervals)

\* A row of the archive table holds every column, null or not.
Rows == { r \in Records : r.has = {"outTemp", "interval"} }

\* Rows of the longer streams.
StreamRows ==
    { r \in RecordsOver({400, 4000}, {30, 60}) : r.has = {"outTemp", "interval"} }

\* What genBatchRecords yields for a time span.
Streams ==
    {<< >>} \cup {<<r>> : r \in Rows}
            \cup UNION { [1..n -> StreamRows] : n \in 2..MaxLen }

-----------------------------------------------------------------------------
(* The host's unit machinery, as the providers use it *)

\* weewx.units.getStandardUnitType(usUnits, obs_type): unit and group.
getStandardUnitType(usUnits, obs_type) ==
    IF obs_type = "outTemp"
    THEN IF usUnits = "US" THEN <<"degree_F", "group_temperature">>
                           ELSE <<"degree_C", "group_temperature">>
    ELSE IF obs_type = "interval" THEN <<"minute", "group_interval">>
    ELSE <<"second", "group_elapsed">>

\* ValueTuple(value, unit, group)
ValueTuple(value, unit, group) == [value |-> value, unit |-> unit, group |-> group]

\* The conversion functions of weewx.units.conversionDict that are used:
\* degree_C to degree_F is x * 1.8 + 32, minute to hour is x / 60, hour to
\* second is x * 3600, each on the fixed-point representation.
conversion_func(from, to, x) ==
    CASE from = "degree_C" /\ to = "degree_F" -> (x * 9) \div 5 + Deg(32)
      [] from = "minute" /\ to = "hour" -> x * 2
      [] from = "hour" /\ to = "second" -> x * 30

\* weewx.units.convert(val_t, target_unit_type): a value already in the
\* target unit is returned as it is, and None converts to None.
convert(val_t, target) ==
    IF val_t.unit = target THEN val_t
    ELSE ValueTuple(IF IsNone(val_t.value) THEN None
                    ELSE Num(conversion_func(val_t.unit, target, Val(val_t.value))),
                    target, val_t.group)

\* weewx.units.convertStd(val_t, usUnits): to the unit system's standard
\* unit of the value's group.  group_elapsed is in seconds in every system.
convertStd(val_t, usUnits) ==
    convert(val_t, IF val_t.group = "group_elapsed" THEN "second" ELSE val_t.unit)

-----------------------------------------------------------------------------
(* Outcomes of a call *)

NoTuple == ValueTuple(None, "", "")

Return(vt) == [kind |-> "return", exc |-> "", vt |-> vt]

Raise(e) == [kind |-> "raise", exc |-> e, vt |-> NoTuple]

NoOutcome == [kind |-> "none", exc |-> "", vt |-> NoTuple]

\* The value of the local chill_time after a branch: a number or None, or
\* the exception the branch raised.
Ok(v) == [err |-> "", v |-> v]

Err(e) == [err |-> e, v |-> None]

\* Python arithmetic on an interval that may be None: x * .5, x * -.5 and
\* x * -1 raise TypeError on None.
times_half(h) == IF IsNone(h) THEN Err("TypeError") ELSE Ok(Num((Val(h) * 5) \div 10))

times_minus_half(h) ==
    IF IsNone(h) THEN Err("TypeError") ELSE Ok(Num(-((Val(h) * 5) \div 10)))

times_minus_one(h) == IF IsNone(h) THEN Err("TypeError") ELSE Ok(Num(-Val(h)))

-----------------------------------------------------------------------------
(* ChillTime *)

\* ChillTime.__init__(algorithm='simple')
ChillTime_init(algorithm) == [algorithm |-> str_lower(algorithm)]

\* Off-by-one bugs of the three algorithms: simple with T <= 45, utah with
\* the third row ending before 48, modified with 32 <= T.
simple_le45(outTemp_F, interval_H) ==
    IF outTemp_F <= Deg(45) THEN Ok(interval_H) ELSE Ok(Num(0))

utah_lt48(outTemp_F, interval_H) ==
    IF outTemp_F <= Deg(34) THEN Ok(Num(0))
    ELSE IF Deg(34) < outTemp_F /\ outTemp_F <= Deg(36) THEN times_half(interval_H)
    ELSE IF Deg(36) < outTemp_F /\ outTemp_F < Deg(48) THEN Ok(interval_H)
    ELSE IF Deg(48) < outTemp_F /\ outTemp_F <= Deg(54) THEN times_half(interval_H)
    ELSE IF Deg(54) < outTemp_F /\ outTemp_F <= Deg(60) THEN Ok(Num(0))
    ELSE IF Deg(60) < outTemp_F /\ outTemp_F <= Deg(65) THEN times_minus_half(interval_H)
    ELSE IF Deg(65) < outTemp_F THEN times_minus_one(interval_H)
    ELSE Err("UnboundLocalError")

modified_ge32(outTemp_F, interval_H) ==
    IF outTemp_F < Deg(45) /\ Deg(32) <= outTemp_F THEN Ok(interval_H) ELSE Ok(Num(0))

\* get_scalar, the branch of algorithm simple (chill_time).
ChillTime_simple(outTemp_F, interval_H) ==
    IF outTemp_F < Deg(45) THEN Ok(interval_H) ELSE Ok(Num(0))

\* get_scalar, the branch of algorithm utah.  No arm assigns chill_time when
\* none of the conditions holds, and the ValueTuple that follows then raises
\* UnboundLocalError.
ChillTime_utah(outTemp_F, interval_H) ==
    IF outTemp_F <= Deg(34) THEN Ok(Num(0))
    ELSE IF Deg(34) < outTemp_F /\ outTemp_F <= Deg(36) THEN times_half(interval_H)
    ELSE IF Deg(36) < outTemp_F /\ outTemp_F <= Deg(48) THEN Ok(interval_H)
    ELSE IF Deg(48) < outTemp_F /\ outTemp_F <= Deg(54) THEN times_half(interval_H)
    ELSE IF Deg(54) < outTemp_F /\ outTemp_F <= Deg(60) THEN Ok(Num(0))
    ELSE IF Deg(60) < outTemp_F /\ outTemp_F <= Deg(65) THEN times_minus_half(interval_H)
    ELSE IF Deg(65) < outTemp_F THEN times_minus_one(interval_H)
    ELSE Err("UnboundLocalError")

\* get_scalar, the branch of algorithm modified.
ChillTime_modified(outTemp_F, interval_H) ==
    IF outTemp_F < Deg(45) /\ Deg(32) < outTemp_F THEN Ok(interval_H) ELSE Ok(Num(0))

\* A bug that converts the result to the record's unit system.
ChillTime_result_std(chill_time, usUnits) ==
    convertStd(ValueTuple(chill_time, "hour", "group_elapsed"), usUnits)

\* get_scalar: the value returned, chill_vt, which is not converted back.
ChillTime_result(chill_time, usUnits) ==
    ValueTuple(chill_time, "hour", "group_elapsed")

\* A bug that answers 0 for a record without an interval.
ChillTime_get_scalar_zero(self, obs_type, record) ==
    IF obs_type # "chillTime" THEN Raise("UnknownType")
    ELSE IF "outTemp" \notin record.has \/ IsNone(record.outTemp)
    THEN Raise("CannotCalculate")
    ELSE Return(ValueTuple(Num(0), "hour", "group_elapsed"))

\* ChillTime.get_scalar(obs_type, record, db_manager)
ChillTime_get_scalar(self, obs_type, record) ==
    IF obs_type # "chillTime" THEN Raise("UnknownType")
    ELSE IF "outTemp" \notin record.has \/ IsNone(record.outTemp)
    THEN Raise("CannotCalculate")
    ELSE IF "interval" \notin record.has \/ IsNone(record.interval)
    THEN Raise("CannotCalculate")
    ELSE
      LET ug_t == getStandardUnitType(record.usUnits, "outTemp")
          outTemp_vt == ValueTuple(record.outTemp, ug_t[1], ug_t[2])
          ug_i == getStandardUnitType(record.usUnits, "interval")
          interval_vt == ValueTuple(record.interval, ug_i[1], ug_i[2])
          outTemp_F == Val(convert(outTemp_vt, "degree_F").value)
          interval_H == convert(interval_vt, "hour").value
          chill_time ==
            IF self.algorithm = S_simple THEN ChillTime_simple(outTemp_F, interval_H)
            ELSE IF self.algorithm = S_utah THEN ChillTime_utah(outTemp_F, interval_H)
            ELSE IF self.algorithm = S_modified
            THEN ChillTime_modified(outTemp_F, interval_H)
            ELSE Err("ValueError")
      IN IF chill_time.err # "" THEN Raise(chill_time.err)
         ELSE Return(ChillTime_result(chill_time.v, record.usUnits))

\* get_aggregate, the branch of algorithm simple inside the loop.
ChillTime_aggregate_simple(outTemp_F, interval_H) ==
    IF outTemp_F < Deg(45) THEN Ok(interval_H) ELSE Ok(Num(0))

\* get_aggregate, the branch of algorithm utah inside the loop.
ChillTime_aggregate_utah(outTemp_F, interval_H) ==
    IF outTemp_F <= Deg(34) THEN Ok(Num(0))
    ELSE IF Deg(34) < outTemp_F /\ outTemp_F <= Deg(36) THEN times_half(interval_H)
    ELSE IF Deg(36) < outTemp_F /\ outTemp_F <= Deg(48) THEN Ok(interval_H)
    ELSE IF Deg(48) < outTemp_F /\ outTemp_F <= Deg(54) THEN times_half(interval_H)
    ELSE IF Deg(54) < outTemp_F /\ outTemp_F <= Deg(60) THEN Ok(Num(0))
    ELSE IF Deg(60) < outTemp_F /\ outTemp_F <= Deg(65) THEN times_minus_half(interval_H)
    ELSE IF Deg(65) < outTemp_F THEN times_minus_one(interval_H)
    ELSE Err("UnboundLocalError")

\* get_aggregate, the branch of algorithm modified inside the loop.
ChillTime_aggregate_modified(outTemp_F, interval_H) ==
    IF outTemp_F < Deg(45) /\ Deg(32) < outTemp_F THEN Ok(interval_H) ELSE Ok(Num(0))

\* get_aggregate, the body of the loop up to the assignment of chill_time:
\* record['outTemp'] and record['interval'] raise KeyError for an absent key,
\* None converts to None, and a None temperature gives 0 whatever the
\* algorithm is.
ChillTime_aggregate_record(self, record) ==
    IF "outTemp" \notin record.has \/ "interval" \notin record.has
    THEN Err("KeyError")
    ELSE
      LET vt_units == record.usUnits
          ug_t == getStandardUnitType(vt_units, "outTemp")
          outTemp_vt == ValueTuple(record.outTemp, ug_t[1], ug_t[2])
          ug_i == getStandardUnitType(vt_units, "interval")
          interval_vt == ValueTuple(record.interval, ug_i[1], ug_i[2])
          outTemp_F == convert(outTemp_vt, "degree_F").value
          interval_H == convert(interval_vt, "hour").value
      IN IF self.algorithm = S_simple /\ ~IsNone(outTemp_F)
         THEN ChillTime_aggregate_simple(Val(outTemp_F), interval_H)
         ELSE IF self.algorithm = S_utah /\ ~IsNone(outTemp_F)
         THEN ChillTime_aggregate_utah(Val(outTemp_F), interval_H)
         ELSE IF self.algorithm = S_modified /\ ~IsNone(outTemp_F)
         THEN ChillTime_aggregate_modified(Val(outTemp_F), interval_H)
         ELSE IF IsNone(outTemp_F) THEN Ok(Num(0))
         ELSE Err("ValueError")

\* get_aggregate, the loop over row_gen from row i on: chill_total +=
\* chill_time raises TypeError when chill_time is None.
RECURSIVE ChillTime_aggregate_loop(_, _, _, _)
ChillTime_aggregate_loop(self, row_gen, i, chill_total) ==
    IF i > Len(row_gen)
    THEN Return(ValueTuple(Num(chill_total), "hour", "group_elapsed"))
    ELSE LET chill_time == ChillTime_aggregate_record(self, row_gen[i])
         IN IF chill_time.err # "" THEN Raise(chill_time.err)
            ELSE IF IsNone(chill_time.v) THEN Raise("TypeError")
            ELSE ChillTime_aggregate_loop(self, row_gen, i + 1,
                                          chill_total + Val(chill_time.v))

\* A bug that tests the aggregate kind before the metric.
ChillTime_get_aggregate_kind_first(self, obs_type, aggregate_type, db) ==
    IF aggregate_type # "sum" THEN Raise("UnknownAggregation")
    ELSE IF obs_type # "chillTime" THEN Raise("UnknownType")
    ELSE IF db.empty THEN Raise("TypeError")
    ELSE ChillTime_aggregate_loop(self, db.rows, 1, 0)

\* ChillTime.get_aggregate(obs_type, timespan, aggregate_type, db_manager).
\* db is the archive as the call sees it: rows are the records of the time
\* span, and empty tells that the archive table holds no record at all, in
\* which case getSql returns None and getSql(vt_sql)[0] raises TypeError.
ChillTime_get_aggregate(self, obs_type, aggregate_type, db) ==
    IF obs_type # "chillTime" THEN Raise("UnknownType")
    ELSE IF aggregate_type # "sum" THEN Raise("UnknownAggregation")
    ELSE IF db.empty THEN Raise("TypeError")
    ELSE ChillTime_aggregate_loop(self, db.rows, 1, 0)

-----------------------------------------------------------------------------
(* ChillHours *)

\* ChillHours.__init__(algorithm='simple')
ChillHours_init(algorithm) == [algorithm |-> str_lower(algorithm)]

\* get_scalar, the branch of algorithm simple.
ChillHours_simple(outTemp_F, interval_H) ==
    IF outTemp_F < Deg(45) THEN Ok(interval_H) ELSE Ok(Num(0))

\* get_scalar, the branch of algorithm utah.
ChillHours_utah(outTemp_F, interval_H) ==
    IF outTemp_F <= Deg(34) THEN Ok(Num(0))
    ELSE IF Deg(34) < outTemp_F /\ outTemp_F <= Deg(36) THEN times_half(interval_H)
    ELSE IF Deg(36) < outTemp_F /\ outTemp_F <= Deg(48) THEN Ok(interval_H)
    ELSE IF Deg(48) < outTemp_F /\ outTemp_F <= Deg(54) THEN times_half(interval_H)
    ELSE IF Deg(54) < outTemp_F /\ outTemp_F <= Deg(60) THEN Ok(Num(0))
    ELSE IF Deg(60) < outTemp_F /\ outTemp_F <= Deg(65) THEN times_minus_half(interval_H)
    ELSE IF Deg(65) < outTemp_F THEN times_minus_one(interval_H)
    ELSE Err("UnboundLocalError")

\* get_scalar, the branch of algorithm modified.
ChillHours_modified(outTemp_F, interval_H) ==
    IF outTemp_F < Deg(45) /\ Deg(32) < outTemp_F THEN Ok(interval_H) ELSE Ok(Num(0))

\* get_scalar: the value returned, chill_vt converted to the unit system of
\* the record.
ChillHours_result(chill_time, usUnits) ==
    convertStd(ValueTuple(chill_time, "hour", "group_elapsed"), usUnits)

\* ChillHours.get_scalar(obs_type, record, db_manager)
ChillHours_get_scalar(self, obs_type, record) ==
    IF obs_type # "chillHours" THEN Raise("UnknownType")
    ELSE IF "outTemp" \notin record.has \/ IsNone(record.outTemp)
    THEN Raise("CannotCalculate")
    ELSE IF "interval" \notin record.has \/ IsNone(record.interval)
    THEN Raise("CannotCalculate")
    ELSE
      LET ug_t == getStandardUnitType(record.usUnits, "outTemp")
          outTemp_vt == ValueTuple(record.outTemp, ug_t[1], ug_t[2])
          ug_i == getStandardUnitType(record.usUnits, "interval")
          interval_vt == ValueTuple(record.interval, ug_i[1], ug_i[2])
          outTemp_F == Val(convert(outTemp_vt, "degree_F").value)
          interval_H == convert(interval_vt, "hour").value
          chill_time ==
            IF self.algorithm = S_simple THEN ChillHours_simple(outTemp_F, interval_H)
            ELSE IF self.algorithm = S_utah THEN ChillHours_utah(outTemp_F, interval_H)
            ELSE IF self.algorithm = S_modified
            THEN ChillHours_modified(outTemp_F, interval_H)
            ELSE Err("ValueError")
      IN IF chill_time.err # "" THEN Raise(chill_time.err)
         ELSE Return(ChillHours_result(chill_time.v, record.usUnits))

-----------------------------------------------------------------------------
(* The services and the host's provider list *)

\* The algorithm a service hands to its calculator: the option of its
\* section, and 'simple' when the lookup raises KeyError.
Service_algorithm(config_dict) ==
    IF config_dict.section /\ config_dict.option
    THEN config_dict.algorithm
    ELSE S_simple

\* The calculator a service of class cls builds (self.ch).
Service_ch(cls, config_dict) ==
    IF cls = "ChillTime"
    THEN ChillTime_init(Service_algorithm(config_dict))
    ELSE ChillHours_init(Service_algorithm(config_dict))

\* list.append(x)
list_append(l, x) == Append(l, x)

\* A bug that removes the last item of the list.
list_remove_last(l, x) == SubSeq(l, 1, Len(l) - 1)

\* list.remove(x): the first item equal to x is removed.  The provider
\* classes define no __eq__, so equal means the same instance.
list_remove(l, x) ==
    LET i == CHOOSE k \in 1..Len(l) : l[k] = x /\ \A j \in 1..(k - 1) : l[j] # x
    IN SubSeq(l, 1, i - 1) \o SubSeq(l, i + 1, Len(l))

\* A service object the engine has not built yet.
Absent == [state |-> "absent", cls |-> "", config_dict |-> NoSection,
           ch |-> [algorithm |-> << >>]]

\* Providers the host registers itself before it loads any service
\* (provider 0); the instance a service builds is named by the service.
HostProviders == <<0>>

Idle == [op |-> "idle", target |-> 0, obs_type |-> "", record |-> Record({}, None, None, ""),
         aggregate_type |-> "", db |-> [empty |-> FALSE, rows |-> << >>],
         out |-> NoOutcome]

Init ==
    /\ services = [s \in 1..MaxServices |-> Absent]
    /\ xtypes = HostProviders
    /\ startOrder = << >>
    /\ call = Idle

\* ChillTimeService.__init__ and ChillHoursService.__init__ for service s.
StartUp(s, cls, config_dict) ==
    /\ call.op = "idle"
    /\ services[s].state = "absent"
    /\ services' = [services EXCEPT ![s] =
                      [state |-> "running", cls |-> cls, config_dict |-> config_dict,
                       ch |-> Service_ch(cls, config_dict)]]
    /\ xtypes' = list_append(xtypes, s)
    /\ startOrder' = Append(startOrder, s)
    /\ UNCHANGED call

\* ChillTimeService.shutDown and ChillHoursService.shutDown for service s,
\* which the engine calls once on a service it has built.
ShutDown(s) ==
    /\ call.op = "idle"
    /\ services[s].state = "running"
    /\ s \in {xtypes[k] : k \in 1..Len(xtypes)}
    /\ services' = [services EXCEPT ![s].state = "stopped"]
    /\ xtypes' = list_remove(xtypes, s)
    /\ UNCHANGED <<startOrder, call>>

\* get_scalar of the calculator of service s.
Instance_get_scalar(s, obs_type, record) ==
    IF services[s].cls = "ChillTime"
    THEN ChillTime_get_scalar(services[s].ch, obs_type, record)
    ELSE ChillHours_get_scalar(services[s].ch, obs_type, record)

\* The host asks the calculator of service s for a scalar.
GetScalar(s) ==
    /\ call.op = "idle"
    /\ services[s].state = "running"
    /\ \E obs_type \in ObsTypes, record \in Records :
          call' = [Idle EXCEPT !.op = "get_scalar", !.target = s,
                               !.obs_type = obs_type, !.record = record,
                               !.out = Instance_get_scalar(s, obs_type, record)]
    /\ UNCHANGED <<services, xtypes, startOrder>>

\* The archive as a call may see it: a table without any record, or the
\* records of the time span.
Databases ==
    {[empty |-> TRUE, rows |-> << >>]} \cup {[empty |-> FALSE, rows |-> r] : r \in Streams}

\* The host asks the calculator of service s for an aggregate.  Only
\* ChillTime defines get_aggregate.
GetAggregate(s) ==
    /\ call.op = "idle"
    /\ services[s].state = "running"
    /\ services[s].cls = "ChillTime"
    /\ \E obs_type \in ObsTypes, aggregate_type \in AggregateTypes, db \in Databases :
          call' = [Idle EXCEPT !.op = "get_aggregate", !.target = s,
                               !.obs_type = obs_type,
                               !.aggregate_type = aggregate_type, !.db = db,
                               !.out = ChillTime_get_aggregate(services[s].ch, obs_type,
                                                               aggregate_type, db)]
    /\ UNCHANGED <<services, xtypes, startOrder>>

\* The host takes the outcome of the call.
Done ==
    /\ call.op # "idle"
    /\ call' = Idle
    /\ UNCHANGED <<services, xtypes, startOrder>>

\* One service and the calls of the host on its calculator.
Next ==
    \/ \E cls \in Classes, config_dict \in Configs : StartUp(1, cls, config_dict)
    \/ ShutDown(1)
    \/ GetScalar(1)
    \/ GetAggregate(1)
    \/ Done

Spec == Init /\ [][Next]_vars

\* The engine loading and stopping its services.
NextService ==
    \/ \E s \in 1..MaxServices, cls \in Classes, config_dict \in Configs :
          StartUp(s, cls, config_dict)
    \/ \E s \in 1..MaxServices : ShutDown(s)

SpecService == Init /\ [][NextService]_vars

-----------------------------------------------------------------------------
(* Vocabulary of the properties *)

KnownAlgorithms == {S_simple, S_utah, S_modified}

\* The metric a provider class supports.
SupportedMetric(cls) == IF cls = "ChillTime" THEN "chillTime" ELSE "chillHours"

\* The service whose calculator the call in progress is made on.
Target == services[call.target]

\* A record with a temperature and an interval, neither null.
Complete(r) ==
    /\ r.has = {"outTemp", "interval"}
    /\ ~IsNone(r.outTemp)
    /\ ~IsNone(r.interval)

\* The temperature of a complete record in hundredths of a degree Fahrenheit.
Fahrenheit(r) ==
    IF r.usUnits = "US" THEN Val(r.outTemp) ELSE (Val(r.outTemp) * 9) \div 5 + 3200

\* The interval of a complete record in minutes.
Minutes(r) == Val(r.interval)

\* A returned duration in 1/120 h, whatever unit it is tagged with.
InHours(vt) ==
    IF vt.unit = "second" THEN Val(vt.value) \div 30 ELSE Val(vt.value)

\* The rows of the utah table that apply to temperature T.
UtahBands(T) ==
    { b \in 1..7 :
        \/ b = 1 /\ T <= 3400
        \/ b = 2 /\ 3400 < T /\ T <= 3600
        \/ b = 3 /\ 3600 < T /\ T <= 4800
        \/ b = 4 /\ 4800 < T /\ T <= 5400
        \/ b = 5 /\ 5400 < T /\ T <= 6000
        \/ b = 6 /\ 6000 < T /\ T <= 6500
        \/ b = 7 /\ 6500 < T }

\* Twice the weight of each row of the utah table: 0, .5, 1, .5, 0, -.5, -1.
UtahTwiceWeight == <<0, 1, 2, 1, 0, -1, -2>>

\* Twice the weight the tables of the specification give temperature T.
TwiceWeight(algorithm, T) ==
    IF algorithm = S_simple THEN (IF T < 4500 THEN 2 ELSE 0)
    ELSE IF algorithm = S_modified THEN (IF 3200 < T /\ T < 4500 THEN 2 ELSE 0)
    ELSE IF algorithm = S_utah /\ Cardinality(UtahBands(T)) = 1
    THEN UtahTwiceWeight[CHOOSE b \in UtahBands(T) : TRUE]
    ELSE 0

\* The contribution of a complete record in 1/120 h: weight times interval.
Contribution(algorithm, r) == TwiceWeight(algorithm, Fahrenheit(r)) * Minutes(r)

RECURSIVE SumOfContributions(_, _)
SumOfContributions(algorithm, rows) ==
    IF rows = << >> THEN 0
    ELSE Contribution(algorithm, Head(rows)) + SumOfContributions(algorithm, Tail(rows))

ScalarCall == call.op = "get_scalar" /\ call.obs_type = SupportedMetric(Target.cls)

AggregateCall ==
    call.op = "get_aggregate" /\ call.obs_type = "chillTime" /\ call.aggregate_type = "sum"

\* A scalar call on a complete record, by a calculator of the algorithm.
ScalarCase(algorithm) ==
    ScalarCall /\ Target.ch.algorithm = algorithm /\ Complete(call.record)

\* An aggregate call over complete records of a table that holds records.
AggregateCase(algorithm) ==
    /\ AggregateCall
    /\ Target.ch.algorithm = algorithm
    /\ ~call.db.empty
    /\ \A k \in 1..Len(call.db.rows) : Complete(call.db.rows[k])

\* The call returned the duration the tables give, in hours.
ScalarAsTabulated(algorithm) ==
    /\ call.out.kind = "return"
    /\ InHours(call.out.vt) = Contribution(algorithm, call.record)

AggregateAsTabulated(algorithm) ==
    /\ call.out.kind = "return"
    /\ InHours(call.out.vt) = SumOfContributions(algorithm, call.db.rows)

-----------------------------------------------------------------------------
(* Properties *)

\* C2: with algorithm utah exactly one row of the utah table applies to
\* every temperature, the contribution is that row's weight times the
\* interval, it is negative exactly above 60 F, and this holds in
\* ChillTime.get_scalar, ChillHours.get_scalar and the aggregate loop.
C2_UtahTable ==
    /\ ScalarCase(S_utah) =>
          /\ Cardinality(UtahBands(Fahrenheit(call.record))) = 1
          /\ ScalarAsTabulated(S_utah)
          /\ (InHours(call.out.vt) < 0 <=> Fahrenheit(call.record) > 6000)
    /\ AggregateCase(S_utah) =>
          /\ \A k \in 1..Len(call.db.rows) :
                Cardinality(UtahBands(Fahrenheit(call.db.rows[k]))) = 1
          /\ AggregateAsTabulated(S_utah)

\* A utah call in the half-weight band just above 48 F, by each class and
\* by the aggregate loop over a hot record and a cold one.
C2_Witness ==
    \/ /\ ScalarCase(S_utah)
       /\ Fahrenheit(call.record) = 4801
       /\ InHours(call.out.vt) = Minutes(call.record)
    \/ /\ AggregateCase(S_utah)
       /\ Len(call.db.rows) = 2
       /\ InHours(call.out.vt) < 0

\* C3: with algorithm modified the contribution is the interval when
\* 32 < T < 45 and 0 otherwise, T = 32 and T = 45 giving 0, in the scalar
\* operation and inside the aggregate loop.
C3_ModifiedRule ==
    /\ ScalarCase(S_modified) => ScalarAsTabulated(S_modified)
    /\ AggregateCase(S_modified) => AggregateAsTabulated(S_modified)

\* A modified call at exactly 32 F that returned 0.
C3_Witness ==
    /\ ScalarCase(S_modified)
    /\ Fahrenheit(call.record) = 3200
    /\ call.out.kind = "return"
    /\ InHours(call.out.vt) = 0

\* The spellings of simple among the spellings a configuration may hold.
SimpleSpellings ==
    { <<"s", "i", "m", "p", "l", "e">>,
      <<"S", "i", "m", "p", "l", "e">>,
      <<"S", "I", "M", "P", "L", "E">> }

\* The configuration selects simple: by any spelling, or by holding no
\* algorithm option.
SelectsSimple(config_dict) ==
    \/ ~config_dict.section
    \/ ~config_dict.option
    \/ config_dict.algorithm \in SimpleSpellings

\* C4: with algorithm simple, which is also the algorithm of a
\* configuration without an algorithm option and of any spelling of the
\* name, the contribution is the interval when T < 45 and 0 when T >= 45,
\* in the scalar operation and inside the aggregate loop.
C4_SimpleRule ==
    /\ (ScalarCall /\ SelectsSimple(Target.config_dict) /\ Complete(call.record))
          => ScalarAsTabulated(S_simple)
    /\ (AggregateCall /\ SelectsSimple(Target.config_dict) /\ ~call.db.empty
          /\ \A k \in 1..Len(call.db.rows) : Complete(call.db.rows[k]))
          => AggregateAsTabulated(S_simple)

\* A call at exactly 45 F that returned 0, by a calculator whose
\* configuration holds no algorithm option.
C4_Witness ==
    /\ ScalarCall
    /\ ~Target.config_dict.option
    /\ Complete(call.record)
    /\ Fahrenheit(call.record) = 4500
    /\ call.out.kind = "return"
    /\ InHours(call.out.vt) = 0

\* The contribution of a row of an aggregate that returned: a row with a
\* null temperature or a null interval added 0.
RowContribution(algorithm, r) ==
    IF Complete(r) THEN Contribution(algorithm, r) ELSE 0

RECURSIVE SumOfRows(_, _)
SumOfRows(algorithm, rows) ==
    IF rows = << >> THEN 0
    ELSE RowContribution(algorithm, Head(rows)) + SumOfRows(algorithm, Tail(rows))

\* C5 as stated: every value a scalar or aggregate call returns, of either
\* provider, is tagged hour and elapsed duration and is the contribution
\* in hours.
C5_AlwaysHours ==
    (call.op # "idle" /\ call.out.kind = "return") =>
        /\ call.out.vt.unit = "hour"
        /\ call.out.vt.group = "group_elapsed"
        /\ call.op = "get_scalar" =>
              Val(call.out.vt.value) = Contribution(Target.ch.algorithm, call.record)

\* C5 amended: every value ChillTime returns, from get_scalar or
\* get_aggregate, is tagged hour and elapsed duration and is the
\* contribution (or the sum of contributions) in hours whatever unit system
\* the record uses; every value ChillHours.get_scalar returns is tagged
\* second and elapsed duration and is 3600 times the contribution in hours.
C5_HoursOrSeconds ==
    (call.op # "idle" /\ call.out.kind = "return") =>
        /\ call.out.vt.group = "group_elapsed"
        /\ ~IsNone(call.out.vt.value)
        /\ Target.cls = "ChillTime" => call.out.vt.unit = "hour"
        /\ Target.cls = "ChillHours" => call.out.vt.unit = "second"
        /\ (call.op = "get_scalar" /\ Target.cls = "ChillTime") =>
              Val(call.out.vt.value) = Contribution(Target.ch.algorithm, call.record)
        /\ (call.op = "get_scalar" /\ Target.cls = "ChillHours") =>
              Val(call.out.vt.value) = 30 * Contribution(Target.ch.algorithm, call.record)
        /\ call.op = "get_aggregate" =>
              Val(call.out.vt.value) = SumOfRows(Target.ch.algorithm, call.db.rows)

\* A metric record of a ChillHours calculator answered in seconds, and one
\* of a ChillTime calculator answered in hours.
C5_Witness ==
    /\ call.op = "get_scalar"
    /\ call.out.kind = "return"
    /\ call.record.usUnits = "METRIC"
    /\ Val(call.out.vt.value) # 0
    /\ \/ Target.cls = "ChillHours" /\ call.out.vt.unit = "second"
       \/ Target.cls = "ChillTime" /\ call.out.vt.unit = "hour"

\* A scalar call for the supported metric on a record whose temperature or
\* interval is absent or null.
ScalarOnIncomplete == ScalarCall /\ ~Complete(call.record)

\* C6: a scalar call for the supported metric on a record whose temperature
\* or interval is absent or null raises CannotCalculate for every algorithm
\* setting, returns no value, and leaves the calculator and the provider
\* list as they were.
C6_IncompleteDeclines ==
    [][ScalarOnIncomplete' =>
          /\ call'.out = Raise("CannotCalculate")
          /\ services' = services
          /\ xtypes' = xtypes]_vars

\* A calculator of an unrecognized algorithm declined a record with a
\* temperature and a null interval.
C6_Witness ==
    /\ ScalarOnIncomplete
    /\ Target.ch.algorithm \notin KnownAlgorithms
    /\ ~IsNone(call.record.outTemp)
    /\ call.record.has = {"outTemp", "interval"}
    /\ call.out = Raise("CannotCalculate")

\* C7: a scalar or aggregate call for another metric than the supported
\* one raises UnknownType whatever the record, the aggregate kind and the
\* algorithm are; an aggregate call for the supported metric and another
\* kind than sum raises UnknownAggregation; the metric is tested first.
C7_UnknownMetricDeclines ==
    /\ (call.op # "idle" /\ call.obs_type # SupportedMetric(Target.cls))
          => call.out = Raise("UnknownType")
    /\ (call.op = "get_aggregate" /\ call.obs_type = SupportedMetric(Target.cls)
          /\ call.aggregate_type # "sum")
          => call.out = Raise("UnknownAggregation")

\* An aggregate call with both the metric and the kind wrong raised
\* UnknownType.
C7_Witness ==
    /\ call.op = "get_aggregate"
    /\ call.obs_type # "chillTime"
    /\ call.aggregate_type # "sum"
    /\ call.out = Raise("UnknownType")

\* What C1 expects of an aggregate from row i on: a row whose temperature
\* is null or missing counts as 0, and any other row is handled as
\* get_scalar handles it, its value added or its exception raised.
RECURSIVE SumOfScalars(_, _, _, _)
SumOfScalars(self, rows, i, total) ==
    IF i > Len(rows)
    THEN Return(ValueTuple(Num(total), "hour", "group_elapsed"))
    ELSE IF IsNone(rows[i].outTemp)
    THEN SumOfScalars(self, rows, i + 1, total)
    ELSE LET scalar == ChillTime_get_scalar(self, "chillTime", rows[i])
         IN IF scalar.kind = "raise" THEN scalar
            ELSE SumOfScalars(self, rows, i + 1, total + Val(scalar.vt.value))

\* C1: for each of the three algorithms and every record stream of the time
\* span, get_aggregate('chillTime', span, 'sum') returns the sum, in stream
\* order, of what get_scalar returns for each record, a record with a null
\* temperature counting as 0; a record with a temperature, its interval
\* null or not, is handled by the loop as get_scalar handles it.
C1_AggregateIsSumOfScalars ==
    (AggregateCall /\ Target.ch.algorithm \in KnownAlgorithms) =>
        call.out = SumOfScalars(Target.ch, call.db.rows, 1, 0)

\* C8: an algorithm that is not simple, utah or modified after case folding
\* fails the construction of the calculator: no calculator with such an
\* algorithm exists, and no call on one returns a value.
C8_NoUnknownAlgorithmInstance ==
    /\ \A s \in 1..MaxServices :
          services[s].state # "absent" => services[s].ch.algorithm \in KnownAlgorithms
    /\ (call.op # "idle" /\ Target.ch.algorithm \notin KnownAlgorithms)
          => call.out.kind # "return"

\* The services whose provider is in the host's list.
Registered == { xtypes[k] : k \in 1..Len(xtypes) } \ { 0 }

\* C9: every provider a service has appended to the host's list has an
\* algorithm among simple, utah and modified; starting a service with
\* another algorithm name leaves the list as it was.
C9_RegisteredAreKnown ==
    \A s \in Registered : services[s].ch.algorithm \in KnownAlgorithms

\* The services that are running, in the order they were started.
Running == SelectSeq(startOrder, LAMBDA s : services[s].state = "running")

\* C10: after any sequence of startups and shutdowns the host's list holds,
\* after the providers the host registered itself, exactly the providers of
\* the services started and not shut down, each once, in startup order.
C10_RegistrationLifecycle == xtypes = HostProviders \o Running

\* Two services were started, the second before the first, and the one
\* started first was shut down.
C10_Witness ==
    /\ startOrder = <<2, 1>>
    /\ services[2].state = "stopped"
    /\ services[1].state = "running"
    /\ xtypes = <<0, 1>>

====
